---- MODULE Spec2Model ----
(***************************************************************************)
(* Model of the Linux memory access layer of masche (package memaccess):   *)
(* nextMemoryRegion, nextReadableMemoryRegion and copyMemory, driven over  *)
(* the lines of /proc/<pid>/maps and the bytes of /proc/<pid>/mem.         *)
(***************************************************************************)
EXTENDS Integers, Sequences, FiniteSets, TLC

VARIABLES
    listing,       \* the lines of /proc/<pid>/maps, in file order
    op,            \* which enumerator the caller walks with
    startAddress,  \* the address the walk was started at
    address,       \* the address handed to the next enumerator call
    regions,       \* the valid regions the walk has been given so far
    pc,            \* "walk" | "done" | "failed" | "idle" | "search" | "read" | "found" | "notfound"
    last,          \* arguments and results of the latest enumerator call
    mem,           \* the bytes of the target's address space
    needle,        \* the byte pattern searched for
    copied,        \* arguments and results of the latest copyMemory call
    scan           \* the search's position inside the span it is reading

vars == <<listing, op, startAddress, address, regions, pc, last, mem, needle, copied, scan>>

\* Addresses run over 0..MaxAddr; a listing holds at most MaxRecs lines.
MaxAddr == 4
MaxRecs == 3
\* Buffers and patterns hold at most MaxLen bytes; a search reads a span in
\* chunks of ChunkSize bytes.
MaxLen == 2
ChunkSize == 2

Addrs == 0..MaxAddr

-----------------------------------------------------------------------------
(* The maps file.  A line is kept as the fields the code looks at: its     *)
(* address range, its permission string, its last column, and how many     *)
(* fields it splits into.                                                  *)

Line(lo, hi, ok, perms, path, n) ==
    [range |-> [lo |-> lo, hi |-> hi, ok |-> ok], perms |-> perms, path |-> path, nfields |-> n]

\* Lines of an ordinary mapping of [lo, hi): text, heap, an unreadable guard,
\* a line that splits into five fields, one that splits into seven (a path
\* with a blank in it), a line whose range is not hex-hex.
BodyLines(lo, hi) ==
    { Line(lo, hi, TRUE, <<"r", "-", "x", "p">>, "", 6),
      Line(lo, hi, TRUE, <<"r", "w", "-", "p">>, "[heap]", 6),
      Line(lo, hi, TRUE, <<"-", "-", "-", "p">>, "", 6),
      Line(lo, hi, TRUE, <<"r", "-", "-", "p">>, "", 5),
      Line(lo, hi, TRUE, <<"r", "-", "x", "p">>, "/opt/my", 7),
      Line(lo, hi, FALSE, <<"r", "-", "-", "p">>, "", 6) }

\* The vsyscall page: the kernel maps it above every other mapping, readable
\* and executable on older kernels, execute-only on newer ones.
VsyscallLines(lo, hi) ==
    { Line(lo, hi, TRUE, <<"r", "-", "x", "p">>, "[vsyscall]", 6),
      Line(lo, hi, TRUE, <<"-", "-", "x", "p">>, "[vsyscall]", 6) }

\* The listings the kernel produces: lines in ascending address order,
\* pairwise non-overlapping, start < end, vsyscall (if any) last.
Ranges(from) == { rg \in Addrs \X Addrs : from <= rg[1] /\ rg[1] < rg[2] }

RECURSIVE ListingsFrom(_, _)
ListingsFrom(from, n) ==
    IF n = 0 THEN { <<>> }
    ELSE { <<>> }
         \cup UNION { { <<l>> : l \in VsyscallLines(rg[1], rg[2]) } : rg \in Ranges(from) }
         \cup UNION { LET tails == ListingsFrom(rg[2], n - 1) IN
                      { <<l>> \o t : l \in BodyLines(rg[1], rg[2]), t \in tails }
                      : rg \in Ranges(from) }

Listings == ListingsFrom(0, MaxRecs)

\* What one open-and-scan of the maps file does: the open succeeds or not,
\* the scanner hands out the first n lines, and scanner.Err() is err.
MapsIO ==
    { [open |-> FALSE, n |-> 0, err |-> "nil"] }
    \cup { [open |-> TRUE, n |-> Len(listing), err |-> "nil"] }
    \cup { [open |-> TRUE, n |-> k, err |-> "EIO"] : k \in 0..Len(listing) }

Scanned(io) == SubSeq(listing, 1, io.n)

\* common.SplitMapsFileEntry: the fields of a line.
SplitMapsFileEntry(line) ==
    SubSeq(<< line.range, line.perms, "offset", "dev", "inode", line.path, "lib.so" >>,
           1, line.nfields)

\* common.ParseMapsFileMemoryLimits: start, end and an error.
ParseMapsFileMemoryLimits(item) ==
    IF item.ok
    THEN [start |-> item.lo, end |-> item.hi, err |-> "nil"]
    ELSE [start |-> 0, end |-> 0, err |-> "parse error"]

-----------------------------------------------------------------------------
(* Regions and results.                                                    *)

MemoryRegion(a, s, acc, k) == [Address |-> a, Size |-> s, Access |-> acc, Kind |-> k]

\* MemoryRegion{}: the zero value.
ZeroRegion == MemoryRegion(0, 0, {}, "")

NoRegionAvailable == MemoryRegion(0, 0, {}, "")

Result(region, harderror, softerrors) ==
    [region |-> region, harderror |-> harderror, softerrors |-> softerrors]

-----------------------------------------------------------------------------
(* nextMemoryRegion                                                        *)

\* len(items) != 6, and the check written len(items) < 6.
unrecognisedShort(items) == Len(items) < 6

unrecognised(items) == Len(items) # 6

\* end <= address, and the check written end < address.
behindStrict(end, addr) == end < addr

behind(end, addr) == end <= addr

\* The access bits of a permission string, and the bits without Executable.
accessNoExec(perms) ==
    (IF perms[1] # "-" THEN {"Readable"} ELSE {})
    \cup (IF perms[2] # "-" THEN {"Writable"} ELSE {})

accessOf(perms) ==
    (IF perms[1] # "-" THEN {"Readable"} ELSE {})
    \cup (IF perms[2] # "-" THEN {"Writable"} ELSE {})
    \cup (IF perms[3] # "-" THEN {"Executable"} ELSE {})

RECURSIVE nextMemoryRegionScan(_, _, _)
nextMemoryRegionScan(lines, i, addr) ==
    IF i > Len(lines) THEN Result(NoRegionAvailable, "nil", <<>>)
    ELSE LET items == SplitMapsFileEntry(lines[i]) IN
         IF unrecognised(items)
         THEN Result(ZeroRegion, "Unrecognised maps line", <<>>)
         ELSE LET lim == ParseMapsFileMemoryLimits(items[1]) IN
              IF lim.err # "nil" THEN Result(ZeroRegion, lim.err, <<>>)
              ELSE IF items[6] = "[vsyscall]" THEN nextMemoryRegionScan(lines, i + 1, addr)
              ELSE IF behind(lim.end, addr) THEN nextMemoryRegionScan(lines, i + 1, addr)
              ELSE Result(MemoryRegion(lim.start, lim.end - lim.start,
                                       accessOf(items[2]), items[6]), "nil", <<>>)

nextMemoryRegion(io, addr) ==
    IF ~io.open THEN Result(ZeroRegion, "open error", <<>>)
    ELSE nextMemoryRegionScan(Scanned(io), 1, addr)

-----------------------------------------------------------------------------
(* nextReadableMemoryRegion                                                *)

\* len(items) != 6
malformed(items) == Len(items) # 6

\* end <= address, and the check written end < address.
passedStrict(end, addr) == end < addr

passed(end, addr) == end <= addr

\* items[1][0] == '-'
unreadable(perms) == perms[1] = "-"

\* region.Address + uintptr(region.Size) == start
continues(region, start) == region.Address + region.Size = start

\* scanner.Err() != nil
scannerFailed(err) == err # "nil"

RECURSIVE nextReadableMemoryRegionScan(_, _, _, _, _, _)
nextReadableMemoryRegionScan(lines, i, addr, region, softerrors, err) ==
    IF i > Len(lines)
    THEN IF scannerFailed(err) THEN Result(NoRegionAvailable, err, softerrors)
         ELSE IF region.Address > 0 THEN Result(region, "nil", softerrors)
         ELSE Result(NoRegionAvailable, "nil", softerrors)
    ELSE LET items == SplitMapsFileEntry(lines[i]) IN
         IF malformed(items)
         THEN Result(region, "Unrecognised maps line", softerrors)
         ELSE LET lim  == ParseMapsFileMemoryLimits(items[1])
                  size == lim.end - lim.start
                  skip == nextReadableMemoryRegionScan(lines, i + 1, addr, region, softerrors, err)
              IN
              IF lim.err # "nil" THEN Result(region, lim.err, softerrors)
              ELSE IF passed(lim.end, addr) THEN skip
              ELSE IF items[6] = "[vsyscall]" THEN skip
              ELSE IF unreadable(items[2])
                   THEN IF region.Address # 0 THEN Result(region, "nil", softerrors)
                        ELSE nextReadableMemoryRegionScan(lines, i + 1, addr, region,
                                 Append(softerrors, <<"Unreadable memory", lim.start, lim.end>>), err)
              ELSE IF region.Address = 0
                   THEN nextReadableMemoryRegionScan(lines, i + 1, addr,
                            MemoryRegion(lim.start, size, {}, ""), softerrors, err)
              ELSE IF continues(region, lim.start)
                   THEN nextReadableMemoryRegionScan(lines, i + 1, addr,
                            [region EXCEPT !.Size = @ + size], softerrors, err)
              ELSE Result(region, "nil", softerrors)

nextReadableMemoryRegion(io, addr) ==
    IF ~io.open THEN Result(ZeroRegion, "open error", <<>>)
    ELSE nextReadableMemoryRegionScan(Scanned(io), 1, addr, ZeroRegion, <<>>, io.err)

-----------------------------------------------------------------------------
(* copyMemory                                                              *)

Bytes == {0, 1}
Memories == [0..(MaxAddr - 1) -> Bytes]

\* What one open-and-ReadAt of the mem file does: the open succeeds or not,
\* ReadAt returns n bytes and err. Only bytes the address space holds are read.
MemIO(addr, len) ==
    { [open |-> FALSE, n |-> 0, err |-> "nil"] }
    \cup { [open |-> TRUE, n |-> k, err |-> e] :
             k \in { x \in 0..len : addr + x <= MaxAddr }, e \in {"nil", "EIO"} }

\* bytes_read != len(buffer), and the check left out.
shortReadAccepted(bytes_read, len) == FALSE

shortRead(bytes_read, len) == bytes_read # len

copyMemory(io, addr, len) ==
    IF ~io.open
    THEN [harderror |-> "Error while reading", softerrors |-> <<>>, buffer |-> <<>>]
    ELSE LET buffer == [k \in 1..io.n |-> mem[addr + k - 1]] IN
         IF io.err # "nil"
         THEN [harderror |-> "Error while reading", softerrors |-> <<>>, buffer |-> buffer]
         ELSE IF shortRead(io.n, len)
         THEN [harderror |-> "Could not read the entire buffer", softerrors |-> <<>>,
               buffer |-> buffer]
         ELSE [harderror |-> "nil", softerrors |-> <<>>, buffer |-> buffer]

-----------------------------------------------------------------------------
(* The caller's walk: call the enumerator at the cursor, and resume from   *)
(* the end of the region it returned until it returns NoRegionAvailable.   *)

NoCall == [op |-> "none", address |-> 0, io |-> [open |-> TRUE, n |-> 0, err |-> "nil"],
           region |-> ZeroRegion, harderror |-> "nil", softerrors |-> <<>>]

NoCopy == [called |-> FALSE, address |-> 0, len |-> 0,
           io |-> [open |-> TRUE, n |-> 0, err |-> "nil"],
           harderror |-> "nil", softerrors |-> <<>>, buffer |-> <<>>]

Copied(io, addr, len, c) ==
    [called |-> TRUE, address |-> addr, len |-> len, io |-> io,
     harderror |-> c.harderror, softerrors |-> c.softerrors, buffer |-> c.buffer]

NoScan == [region |-> ZeroRegion, offset |-> 0, window |-> <<>>, match |-> 0,
           softerrors |-> <<>>, faults |-> FALSE]

Called(name, io, r) ==
    [op |-> name, address |-> address, io |-> io,
     region |-> r.region, harderror |-> r.harderror, softerrors |-> r.softerrors]

Init ==
    /\ listing \in Listings
    /\ op \in {"nextMemoryRegion", "nextReadableMemoryRegion"}
    /\ startAddress \in Addrs
    /\ address = startAddress
    /\ regions = <<>>
    /\ pc = "walk"
    /\ last = NoCall
    /\ mem = <<>>
    /\ needle = <<>>
    /\ copied = NoCopy
    /\ scan = NoScan

Resume(r) ==
    IF r.harderror # "nil"
    THEN pc' = "failed" /\ UNCHANGED <<address, regions>>
    ELSE IF r.region = NoRegionAvailable
    THEN pc' = "done" /\ UNCHANGED <<address, regions>>
    ELSE /\ pc' = "walk"
         /\ regions' = Append(regions, r.region)
         /\ address' = r.region.Address + r.region.Size

NextMemoryRegion ==
    /\ pc = "walk"
    /\ op = "nextMemoryRegion"
    /\ \E io \in MapsIO :
          LET r == nextMemoryRegion(io, address) IN
          /\ last' = Called("nextMemoryRegion", io, r)
          /\ Resume(r)
    /\ UNCHANGED <<listing, op, startAddress, mem, needle, copied, scan>>

NextReadableMemoryRegion ==
    /\ pc = "walk"
    /\ op = "nextReadableMemoryRegion"
    /\ \E io \in MapsIO :
          LET r == nextReadableMemoryRegion(io, address) IN
          /\ last' = Called("nextReadableMemoryRegion", io, r)
          /\ Resume(r)
    /\ UNCHANGED <<listing, op, startAddress, mem, needle, copied, scan>>

Next == NextMemoryRegion \/ NextReadableMemoryRegion

Spec == Init /\ [][Next]_vars

-----------------------------------------------------------------------------
(* The memory reader on its own: any address, any buffer length.           *)

InitRead ==
    /\ listing = <<>>
    /\ op = "copyMemory"
    /\ startAddress = 0
    /\ address = 0
    /\ regions = <<>>
    /\ pc = "idle"
    /\ last = NoCall
    /\ mem \in Memories
    /\ needle = <<>>
    /\ copied = NoCopy
    /\ scan = NoScan

CopyMemory ==
    /\ pc = "idle"
    /\ \E addr \in Addrs, len \in 0..MaxLen :
          \E io \in MemIO(addr, len) :
             copied' = Copied(io, addr, len, copyMemory(io, addr, len))
    /\ UNCHANGED <<listing, op, startAddress, address, regions, pc, last, mem, needle, scan>>

NextRead == CopyMemory

SpecRead == InitRead /\ [][NextRead]_vars

-----------------------------------------------------------------------------
(* findNext: the search drives nextReadableMemoryRegion for the next span, *)
(* reads the span chunk by chunk with copyMemory, and looks for the needle *)
(* in each chunk, the last Len(needle) - 1 bytes of the chunk before it    *)
(* prepended.                                                              *)

Needles == UNION { [1..n -> Bytes] : n \in 1..MaxLen }

\* Listings whose every line the enumerators recognise.
SearchListings ==
    { l \in Listings : \A i \in 1..Len(l) : l[i].nfields = 6 /\ l[i].range.ok }

\* bytes.Index: the first position of sub in s, 0 when there is none.
Index(s, sub) ==
    LET at == { i \in 1..(Len(s) - Len(sub) + 1) : SubSeq(s, i, i + Len(sub) - 1) = sub }
    IN IF at = {} THEN 0 ELSE CHOOSE i \in at : \A j \in at : i <= j

LastBytes(s, n) == IF Len(s) <= n THEN s ELSE SubSeq(s, Len(s) - n + 1, Len(s))

InitSearch ==
    /\ listing \in SearchListings
    /\ op = "findNext"
    /\ startAddress = 0
    /\ address = startAddress
    /\ regions = <<>>
    /\ pc = "search"
    /\ last = NoCall
    /\ mem \in Memories
    /\ needle \in Needles
    /\ copied = NoCopy
    /\ scan = NoScan

\* Step 1: the next readable span, or the end of the search.
FindNextSpan ==
    /\ pc = "search"
    /\ \E io \in MapsIO :
          LET r == nextReadableMemoryRegion(io, address) IN
          /\ last' = Called("nextReadableMemoryRegion", io, r)
          /\ IF r.harderror # "nil"
             THEN /\ pc' = "failed"
                  /\ scan' = [scan EXCEPT !.faults = TRUE]
                  /\ UNCHANGED regions
             ELSE IF r.region = NoRegionAvailable
             THEN /\ pc' = "notfound"
                  /\ scan' = [scan EXCEPT !.softerrors = @ \o r.softerrors]
                  /\ UNCHANGED regions
             ELSE /\ pc' = "read"
                  /\ regions' = Append(regions, r.region)
                  /\ scan' = [scan EXCEPT !.region = r.region, !.offset = 0, !.window = <<>>,
                                          !.softerrors = @ \o r.softerrors]
    /\ UNCHANGED <<listing, op, startAddress, address, mem, needle, copied>>

\* Steps 2 to 5: read one chunk of the span and scan it.
ReadChunk ==
    /\ pc = "read"
    /\ LET addr == scan.region.Address + scan.offset
           rest == scan.region.Size - scan.offset
           len  == IF rest < ChunkSize THEN rest ELSE ChunkSize
           end  == scan.region.Address + scan.region.Size
       IN
       \E io \in MemIO(addr, len) :
          LET c == copyMemory(io, addr, len)
              haystack == scan.window \o c.buffer
              i == Index(haystack, needle)
          IN
          /\ copied' = Copied(io, addr, len, c)
          /\ IF c.harderror # "nil"
             THEN /\ pc' = "search"
                  /\ address' = end
                  /\ scan' = [scan EXCEPT !.softerrors = Append(@, <<c.harderror, addr>>),
                                          !.faults = TRUE]
             ELSE IF i # 0
             THEN /\ pc' = "found"
                  /\ scan' = [scan EXCEPT !.match = addr - Len(scan.window) + i - 1]
                  /\ UNCHANGED address
             ELSE IF scan.offset + len = scan.region.Size
             THEN /\ pc' = "search"
                  /\ address' = end
                  /\ UNCHANGED scan
             ELSE /\ pc' = "read"
                  /\ scan' = [scan EXCEPT !.offset = @ + len,
                                          !.window = LastBytes(haystack, Len(needle) - 1)]
                  /\ UNCHANGED address
    /\ UNCHANGED <<listing, op, startAddress, regions, last, mem, needle>>

NextSearch == FindNextSpan \/ ReadChunk

SpecSearch == InitSearch /\ [][NextSearch]_vars

-----------------------------------------------------------------------------
(* Vocabulary of the properties: the lines of the listing as records of    *)
(* a mapping, independent of how the enumerators scan them.                *)

Lo(i) == listing[i].range.lo
Hi(i) == listing[i].range.hi
Recognised(i) == listing[i].nfields = 6 /\ listing[i].range.ok
IsVsyscall(i) == listing[i].path = "[vsyscall]"
IsReadable(i) == listing[i].perms[1] = "r"

WellFormedListing == \A i \in 1..Len(listing) : Recognised(i)

\* The latest call opened the maps file and read it to its end.
CleanCall == last.io.open /\ last.io.err = "nil"

CalledReadable == last.op = "nextReadableMemoryRegion"
CalledRegion == last.op = "nextMemoryRegion"

Min(S) == CHOOSE x \in S : \A y \in S : x <= y
Max(S) == CHOOSE x \in S : \A y \in S : x >= y

\* Records a readable walk can report: readable, not vsyscall, ending after a.
ReadableAfter(a) ==
    { i \in 1..Len(listing) : IsReadable(i) /\ ~IsVsyscall(i) /\ Hi(i) > a }

\* The last record of the run of contiguous readable records that starts at f.
RunEnd(f) ==
    Max({ g \in f..Len(listing) :
            \A k \in (f + 1)..g :
                IsReadable(k) /\ ~IsVsyscall(k) /\ Lo(k) = Hi(k - 1) })

-----------------------------------------------------------------------------
\* C1: in a walk with nextReadableMemoryRegion that resumes from the end of
\* each returned region, the regions returned have strictly increasing base
\* addresses and pairwise disjoint intervals [Address, Address + Size).
C1_RegionsIncreasingDisjoint ==
    op = "nextReadableMemoryRegion" =>
        \A i, j \in 1..Len(regions) :
            i < j => /\ regions[i].Address < regions[j].Address
                     /\ regions[i].Address + regions[i].Size <= regions[j].Address
                     /\ regions[i].Size > 0

C1_Witness ==
    /\ op = "nextReadableMemoryRegion"
    /\ Len(regions) >= 2
    /\ startAddress > 0

\* C2: on a listing it recognises and reads to the end,
\* nextReadableMemoryRegion returns the merged run of contiguous readable
\* records: its base is the start of the first readable record that ends
\* after address, its size the total size of that record and of the readable
\* records that follow it contiguously (vsyscall is left out of the count).
C2_MergedRun ==
    (CalledReadable /\ CleanCall /\ WellFormedListing /\ ReadableAfter(last.address) # {}) =>
        LET f == Min(ReadableAfter(last.address)) IN
        /\ last.harderror = "nil"
        /\ last.region.Address = Lo(f)
        /\ last.region.Size = Hi(RunEnd(f)) - Lo(f)

\* C3: when the maps file is read to its end and every line up to the one
\* returned is recognised, nextMemoryRegion returns the first record of the
\* listing, vsyscall apart, that ends after address, whatever its
\* permissions, with its base, size, kind and the access bits of its
\* permission characters; NoRegionAvailable and a nil harderror when there is
\* no such record.
C3_FirstRegionAfter ==
    LET K == { i \in 1..Len(listing) : ~IsVsyscall(i) /\ Hi(i) > last.address }
        upto == IF K = {} THEN Len(listing) ELSE Min(K)
    IN
    (CalledRegion /\ CleanCall /\ \A i \in 1..upto : Recognised(i)) =>
        /\ last.harderror = "nil"
        /\ last.softerrors = <<>>
        /\ IF K = {} THEN last.region = NoRegionAvailable
           ELSE LET l == listing[Min(K)] IN
                /\ last.region.Address = l.range.lo
                /\ last.region.Size = l.range.hi - l.range.lo
                /\ last.region.Kind = l.path
                /\ ("Readable" \in last.region.Access) = (l.perms[1] # "-")
                /\ ("Writable" \in last.region.Access) = (l.perms[2] # "-")
                /\ ("Executable" \in last.region.Access) = (l.perms[3] # "-")

C3_Witness ==
    /\ CalledRegion /\ CleanCall /\ WellFormedListing
    /\ last.address > 0
    /\ last.region.Address < last.address
    /\ last.region.Access = {}
    /\ last.harderror = "nil"

\* C4: on a listing it recognises and reads to the end, the softerrors of
\* nextReadableMemoryRegion are one "Unreadable memory" entry, in listing
\* order, for each unreadable record ending after address that comes before
\* the first readable one (where accumulation begins); an unreadable record
\* after that ends the region and adds none; harderror is nil.
C4_SoftErrorsBeforeAccumulation ==
    (CalledReadable /\ CleanCall /\ WellFormedListing) =>
        LET F == ReadableAfter(last.address)
            first == IF F = {} THEN Len(listing) + 1 ELSE Min(F)
            Reported(i) == /\ i < first
                           /\ ~IsReadable(i) /\ ~IsVsyscall(i)
                           /\ Hi(i) > last.address
            idx == SelectSeq([i \in 1..Len(listing) |-> i], Reported)
        IN
        /\ last.harderror = "nil"
        /\ last.softerrors = [k \in 1..Len(idx) |-> <<"Unreadable memory", Lo(idx[k]), Hi(idx[k])>>]

\* C5: when address is at or beyond the end of every record of a listing
\* that is recognised and read to its end, nextMemoryRegion and
\* nextReadableMemoryRegion return NoRegionAvailable (address 0, size 0), a
\* nil harderror and no softerrors.
C5_PastTheEnd ==
    (last.op # "none" /\ CleanCall /\ WellFormedListing
        /\ \A i \in 1..Len(listing) : Hi(i) <= last.address) =>
        /\ last.region = NoRegionAvailable
        /\ last.region.Address = 0 /\ last.region.Size = 0
        /\ last.harderror = "nil"
        /\ last.softerrors = <<>>

C5_Witness ==
    /\ CalledReadable /\ CleanCall /\ WellFormedListing
    /\ Len(regions) >= 1
    /\ \A i \in 1..Len(listing) : Hi(i) <= last.address
    /\ pc = "done"

\* C6: when reading the maps file fails part-way and none of the lines read
\* before the failure ends the call (each lies at or below address), the
\* enumerator returns the failure as a non-nil harderror, never
\* NoRegionAvailable with a nil harderror.
C6_ReadFailureFatal ==
    (/\ last.op # "none" /\ last.io.open /\ last.io.err # "nil"
     /\ \A i \in 1..last.io.n : Recognised(i) /\ Hi(i) <= last.address) =>
        last.harderror # "nil"

\* C7, as claimed: a listing with a record that does not split into six
\* fields makes the call return a non-nil harderror, wherever the record is.
C7_MalformedAnywhereFatal ==
    (last.op # "none" /\ CleanCall /\ \E i \in 1..Len(listing) : listing[i].nfields # 6) =>
        last.harderror # "nil"

\* Record j is one nextMemoryRegion returns at once.
ReturnedByRegion(j) == Recognised(j) /\ ~IsVsyscall(j) /\ Hi(j) > last.address

\* Record j closes the region nextReadableMemoryRegion is accumulating: a
\* region with a non-zero base is open, and j is unreadable or not contiguous.
Effective(j) == Recognised(j) /\ ~IsVsyscall(j) /\ Hi(j) > last.address
ClosesReadable(j) ==
    /\ Effective(j)
    /\ \E k \in 1..(j - 1) : Effective(k) /\ IsReadable(k) /\ Lo(k) # 0
    /\ \/ ~IsReadable(j)
       \/ Lo(j) # Hi(Max({ m \in 1..(j - 1) : Effective(m) }))

EndsCall(j) == IF CalledRegion THEN ReturnedByRegion(j) ELSE ClosesReadable(j)

\* C7, amended: a record that does not split into six fields makes the call
\* return a non-nil harderror whenever the scan reaches it: the maps file was
\* opened and read that far, and no record before it ends the call.
C7_MalformedReachedFatal ==
    (/\ last.op # "none" /\ last.io.open
     /\ \E i \in 1..last.io.n :
           /\ listing[i].nfields # 6
           /\ \A j \in 1..(i - 1) : ~EndsCall(j)) =>
        last.harderror # "nil"

C7_Witness ==
    /\ CalledReadable /\ last.io.open
    /\ Len(listing) = 3
    /\ Recognised(1) /\ Recognised(2) /\ listing[3].nfields = 7
    /\ last.io.n = 3
    /\ Lo(1) > 0
    /\ last.region.Address = Lo(1)
    /\ last.region.Size = Hi(2) - Lo(1)
    /\ last.harderror = "Unrecognised maps line"

\* C10: a finished walk with nextReadableMemoryRegion has skipped no readable
\* memory: every readable record, vsyscall apart, that ends after the
\* starting address lies within one of the regions returned.
C10_NoReadableSkipped ==
    (op = "nextReadableMemoryRegion" /\ pc = "done") =>
        \A i \in 1..Len(listing) :
            (IsReadable(i) /\ ~IsVsyscall(i) /\ Hi(i) > startAddress) =>
                \E k \in 1..Len(regions) :
                    /\ regions[k].Address <= Lo(i)
                    /\ Hi(i) <= regions[k].Address + regions[k].Size

-----------------------------------------------------------------------------
\* C8: copyMemory returns a nil harderror exactly when the mem file opened,
\* ReadAt reported no error and filled the whole buffer from address on; an
\* open failure, a read error and a short read each give a non-nil harderror;
\* it reports no softerrors.
C8_ExactReadOrHardError ==
    copied.called =>
        /\ (copied.harderror = "nil") =
               (copied.io.open /\ copied.io.err = "nil" /\ copied.io.n = copied.len)
        /\ copied.harderror = "nil" =>
               copied.buffer = [k \in 1..copied.len |-> mem[copied.address + k - 1]]
        /\ copied.softerrors = <<>>

C8_Witness ==
    /\ copied.called
    /\ copied.io.open /\ copied.io.err = "nil"
    /\ copied.len = 2 /\ copied.io.n = 1
    /\ copied.harderror = "Could not read the entire buffer"

\* Address a holds a byte of a readable record of the listing, vsyscall apart.
InReadableMemory(a) ==
    \E i \in 1..Len(listing) :
        IsReadable(i) /\ ~IsVsyscall(i) /\ Lo(i) <= a /\ a < Hi(i)

\* The needle occurs at a, every byte of the occurrence in readable memory.
OccursAt(a) ==
    /\ a + Len(needle) <= MaxAddr
    /\ \A k \in 1..Len(needle) : InReadableMemory(a + k - 1) /\ mem[a + k - 1] = needle[k]

Occurrences == { a \in 0..(MaxAddr - 1) : OccursAt(a) }

\* C9: a pattern that occurs in readable memory, first at address A, is found
\* by findNext from address 0 at A, with a nil harderror (when no read of the
\* maps file or of the mem file fails during the search).
C9_FirstOccurrenceFound ==
    (/\ pc \in {"found", "notfound", "failed"}
     /\ startAddress = 0
     /\ ~scan.faults
     /\ Occurrences # {}) =>
        /\ pc = "found"
        /\ scan.match = Min(Occurrences)

====
